---- MODULE Spec2Model ----
(***************************************************************************)
(* Model of the batch scheduler of the video compressor front end          *)
(* (app/src/routes/+page.svelte and its components): the file list, the    *)
(* start / pause / cancel handlers, the worker loops of handleStart, the   *)
(* two progress listeners and the session aggregate progress.              *)
(*                                                                         *)
(* JavaScript runs every handler to its next await without interruption,   *)
(* so one action is one such run: a click handler up to its first await, a *)
(* listener callback, or the continuation of an awaited call.              *)
(***************************************************************************)
EXTENDS Integers, Sequences, FiniteSets, TLC

\* ------------------------------------------------------------------ bounds
NumFiles == 2
MaxThreads == 2
MaxStarts == 2
MaxIterations == 1

Files == 1..NumFiles
Slots == 1..MaxStarts
Workers == 1..MaxThreads

\* raw percents carried by video-progress events
Percents == {50, 100}

\* ----------------------------------------------------------- status strings
\* The dynamic texts "Searching CRF (n/m) | ..." and "Found CRF ..." are
\* represented by their prefix, the only part the front end inspects.
Statuses ==
    {"Scanning", "Pending", "Processing", "Processing (Pass 1/2)",
     "Processing (Pass 2/2)", "Searching CRF", "Found CRF",
     "Waiting for VMAF", "Evaluating", "Done", "Error", "Cancelled",
     "Skipped"}

\* status.startsWith("Processing")
StartsWithProcessing(s) ==
    s \in {"Processing", "Processing (Pass 1/2)", "Processing (Pass 2/2)"}

\* status.startsWith("Searching CRF")
StartsWithSearching(s) == s = "Searching CRF"

\* status.startsWith("Found CRF")
StartsWithFound(s) == s = "Found CRF"

\* the condition of the loop of handleCancel
InFlightStatus(s) ==
    \/ StartsWithProcessing(s)
    \/ StartsWithSearching(s)
    \/ StartsWithFound(s)
    \/ s = "Waiting for VMAF"
    \/ s = "Evaluating"

\* settings.json values that select what the encoder reports
Modes == {"single", "twopass", "vmaf"}

\* input folder of the scanned files, and their extension
SourceDir == "/in"
SourceExt == "mp4"

\* normalizePath: backslashes to slashes, lower case, no trailing slash
NormalizePath(p) ==
    CASE p = "/IN" -> "/in"
      [] p = "/in/" -> "/in"
      [] p = "\\in" -> "/in"
      [] OTHER -> p

VARIABLES
    files,          \* the VideoInfo list: status, progress, ...
    isProcessing,
    isPaused,
    shouldStop,
    scan,           \* scanCounter, isScanning, and the outstanding scan and
                    \* metadata calls
    inputPath,      \* the scanned folder (or what the input field shows)
    outputPath,
    settings,       \* settingsStore.value (suffix, targetFormat, ffmpegThreads, mode)
    starts,         \* the invocations of handleStart: position, queue, workers
    cancels,        \* the invocation of handleCancel: position in its loop,
                    \* and the files it cancelled whose call is still awaited
    backend,        \* per file: the event stream of the running encoder or VMAF process
    lastOp          \* "reject" or "resume" when that was the last step, else "other"

vars == <<files, isProcessing, isPaused, shouldStop, scan, inputPath, outputPath,
          settings,
          starts, cancels, backend, lastOp>>

\* ------------------------------------------------------------ file records
NewFile ==
    [status |-> "Pending", progress |-> 0, vmafSearchEndProgress |-> -1]

\* no scan has been requested
NoScan ==
    [counter |-> 0, isScanning |-> FALSE, drops |-> {}, calls |-> {},
     probes |-> {}, requested |-> "", listed |-> FALSE]

NoWorker == [pc |-> "none", file |-> 0]

IdleStart ==
    [pc |-> "idle", queue |-> <<>>, queued |-> <<>>, taken |-> <<>>,
     workers |-> [w \in Workers |-> NoWorker]]


\* no encoder process runs for the file
IdleStream == [phase |-> "idle", raw |-> 0, iter |-> 0]

\* ------------------------------------------------------- session aggregate
\* an aggregate that counts a failed file as finished
CountsFailedAsFinished(f) ==
    IF f.status \in {"Done", "Evaluating", "Waiting for VMAF", "Skipped", "Error"}
        THEN 100
    ELSE f.progress

\* one file's term of progressSum, times 100
Contribution(f) ==
    IF f.status \in {"Done", "Evaluating", "Waiting for VMAF", "Skipped"}
        THEN 100
    ELSE IF f.status = "Processing (Pass 1/2)" THEN f.progress
    ELSE IF f.status = "Processing (Pass 2/2)" THEN f.progress
    ELSE IF StartsWithSearching(f.status) THEN f.progress
    ELSE IF StartsWithFound(f.status) THEN f.progress
    ELSE IF StartsWithProcessing(f.status) THEN f.progress
    ELSE 0

RECURSIVE SumContrib(_, _)
SumContrib(fs, n) ==
    IF n = 0 THEN 0 ELSE Contribution(fs[n]) + SumContrib(fs, n - 1)

\* progressSum * 100; totalProgress = ProgressSum / totalCount
ProgressSum(fs) == SumContrib(fs, NumFiles)

\* totalProgress, rounded down to an integer percent
TotalProgress(fs) == ProgressSum(fs) \div NumFiles

\* ------------------------------------------------------------------- Init
\* The state after a scan of SourceDir has listed the files and their
\* metadata has arrived (all Pending), for each configuration the user can
\* have chosen before the first start.  The dialogs of handleStart do not
\* depend on what the encoder reports, so the configurations that open one
\* are explored in single-pass mode with one worker.
Configs ==
    {[outputPath |-> "", suffix |-> "_c"],
     [outputPath |-> " ", suffix |-> "_c"],
     [outputPath |-> "/out", suffix |-> "_c"],
     [outputPath |-> "/IN", suffix |-> ""]}

Init ==
    /\ files = [f \in Files |-> NewFile]
    /\ isProcessing = FALSE
    /\ isPaused = FALSE
    /\ shouldStop = FALSE
    /\ inputPath = SourceDir
    /\ scan = NoScan
    /\ \E c \in Configs, m \in Modes, t \in 1..MaxThreads :
         /\ (c.outputPath = "/out" \/ (m = "single" /\ t = 1))
         /\ outputPath = c.outputPath
         /\ settings = [suffix |-> c.suffix, targetFormat |-> "mp4",
                        ffmpegThreads |-> t, mode |-> m]
    /\ starts = [s \in Slots |-> IdleStart]
    /\ cancels = [pc |-> "idle", idx |-> 0, marked |-> {}]
    /\ backend = [f \in Files |-> IdleStream]
    /\ lastOp = "other"

\* ------------------------------------------------------------ handleStart
\* files.filter(f => f.status !== "Done" && f.status !== "Error"), as indices
\* in list order (sortStore.column is null unless the user sorts the table)
RECURSIVE QueueFrom(_, _)
QueueFrom(fs, i) ==
    IF i > NumFiles THEN <<>>
    ELSE IF fs[i].status # "Done" /\ fs[i].status # "Error"
        THEN <<i>> \o QueueFrom(fs, i + 1)
    ELSE QueueFrom(fs, i + 1)

PendingQueue(fs) == QueueFrom(fs, 1)

\* the overwrite check of handleStart: no suffix, and some pending file whose
\* source directory is the output directory and whose extension is the
\* target format
WillOverwrite(fs, out, cfg) ==
    /\ cfg.suffix = ""
    /\ \E i \in Files :
         /\ fs[i].status # "Done" /\ fs[i].status # "Error"
         /\ NormalizePath(SourceDir) = NormalizePath(out)
         /\ SourceExt = cfg.targetFormat

\* the encoder process started by start_processing: nothing reported yet
NewStream ==
    [phase |-> IF settings.mode = "vmaf" THEN "search" ELSE "run",
     raw |-> 0, iter |-> 0]

\* if (shouldStop || isPaused) break;
StopOrPause(stop, paused) == stop \/ paused

\* a shift that reads the head of the queue and leaves it in place
Peek(q) == [item |-> Head(q), rest |-> q]

\* queue.shift()
Shift(q) == [item |-> Head(q), rest |-> Tail(q)]

\* One run of a worker's loop from its head to its next await or to its
\* exit.  R is the part of the state the loop touches.
WorkerRun(R, stop, paused) ==
    IF Len(R.queue) = 0 THEN [R EXCEPT !.worker = [pc |-> "exited", file |-> 0]]
    ELSE IF StopOrPause(stop, paused)
        THEN [R EXCEPT !.worker = [pc |-> "exited", file |-> 0]]
    ELSE
        LET sh == Shift(R.queue)
            i  == sh.item
            fs == [R.files EXCEPT ![i].status = "Processing", ![i].progress = 0]
        IN  IF StopOrPause(stop, paused)
                THEN [R EXCEPT !.files = [fs EXCEPT ![i].status = "Pending"],
                               !.queue = sh.rest,
                               !.worker = [pc |-> "exited", file |-> 0]]
            ELSE [R EXCEPT !.files = fs,
                           !.queue = sh.rest,
                           !.taken = Append(R.taken, i),
                           !.backend = [R.backend EXCEPT ![i] = NewStream],
                           !.worker = [pc |-> "await", file |-> i]]

\* Array(n).fill(null).map(() => worker()): worker k runs to its first await
\* before worker k + 1 is created
RECURSIVE SpawnWorkers(_, _, _, _, _)
SpawnWorkers(R, ws, k, n, flags) ==
    IF k > n THEN [run |-> R, workers |-> ws]
    ELSE LET r == WorkerRun(R, flags.stop, flags.paused)
         IN  SpawnWorkers(r, [ws EXCEPT ![k] = r.worker], k + 1, n, flags)

Min(a, b) == IF a < b THEN a ELSE b

RunState(fs, q, tk, be) ==
    [files |-> fs, queue |-> q, taken |-> tk, backend |-> be,
     worker |-> NoWorker]

\* a Promise.all that never settles
NeverSettles(ws) == FALSE

\* Promise.all(workers) has settled: no worker awaits a call
AllExited(ws) == \A w \in Workers : ws[w].pc # "await"

\* handleStart from "Start clicked" to await Promise.all(workers)
StartRun(s) ==
    LET q   == PendingQueue(files)
        n   == Min(settings.ffmpegThreads, Len(q))
        sp  == SpawnWorkers(RunState(files, q, <<>>, backend),
                            [w \in Workers |-> NoWorker], 1, n,
                            [stop |-> FALSE, paused |-> FALSE])
        fin == AllExited(sp.workers)
    IN  /\ isPaused' = FALSE
        /\ shouldStop' = FALSE
        /\ isProcessing' = ~fin
        /\ files' = sp.run.files
        /\ backend' = sp.run.backend
        /\ starts' = [starts EXCEPT ![s] =
                        IF fin THEN IdleStart
                        ELSE [pc |-> "running", queue |-> sp.run.queue,
                              queued |-> q, taken |-> sp.run.taken,
                              workers |-> sp.workers]]

\* a start that never looks at the output path
OutputNeverChecked(out) == FALSE

\* !outputPath || outputPath.trim() === ""
OutputNotSet(out) == out = "" \/ out = " "

\* Controls.svelte shows the start button when !isProcessing || isPaused and
\* it dispatches "start" only when isPaused is false
StartButton == (~isProcessing \/ isPaused) /\ ~isPaused

\* click on Start: handleStart up to its first await
HandleStart(s) ==
    /\ StartButton
    /\ starts[s].pc = "idle"
    /\ \A t \in Slots : t < s => starts[t].pc # "idle"
    /\ lastOp' = "other"
    /\ UNCHANGED <<scan, inputPath, outputPath, settings, cancels>>
    /\ IF isProcessing \/ Len(PendingQueue(files)) = 0
          THEN UNCHANGED <<files, isProcessing, isPaused, shouldStop, starts,
                           backend>>
       ELSE IF OutputNotSet(outputPath)
          THEN /\ starts' = [starts EXCEPT ![s].pc = "askOutput"]
               /\ UNCHANGED <<files, isProcessing, isPaused, shouldStop,
                              backend>>
       ELSE IF WillOverwrite(files, outputPath, settings)
          THEN /\ starts' = [starts EXCEPT ![s].pc = "askOverwrite"]
               /\ UNCHANGED <<files, isProcessing, isPaused, shouldStop,
                              backend>>
       ELSE StartRun(s)

\* the "output not set" dialog is dismissed: handleStart returns
OutputDialogCloses(s) ==
    /\ starts[s].pc = "askOutput"
    /\ starts' = [starts EXCEPT ![s] = IdleStart]
    /\ lastOp' = "other"
    /\ UNCHANGED <<files, isProcessing, isPaused, shouldStop, scan, inputPath, outputPath,
                   settings, cancels, backend>>

\* the overwrite dialog is answered
OverwriteDialogCloses(s) ==
    /\ starts[s].pc = "askOverwrite"
    /\ \E confirmed \in BOOLEAN :
         IF confirmed
            THEN /\ StartRun(s)
                 /\ lastOp' = "other"
            ELSE /\ starts' = [starts EXCEPT ![s] = IdleStart]
                 /\ lastOp' = "other"
                 /\ UNCHANGED <<files, isProcessing, isPaused, shouldStop,
                                backend>>
    /\ UNCHANGED <<scan, inputPath, outputPath, settings, cancels>>

\* the workers of the invocations st that await start_processing for file f
Awaiting(st, f) ==
    {sw \in Slots \X Workers :
        /\ st[sw[1]].pc = "running"
        /\ st[sw[1]].workers[sw[2]].pc = "await"
        /\ st[sw[1]].workers[sw[2]].file = f}

\* some worker awaits start_processing for file f
Outstanding(f) == Awaiting(starts, f)

\* the continuation of a worker after its start_processing call ended
WorkerContinues(s, w, fs, name) ==
    LET st  == starts[s]
        i   == st.workers[w].file
        be  == IF \E sw \in Outstanding(i) : sw # <<s, w>> THEN backend
               ELSE [backend EXCEPT ![i] = IdleStream]
        r   == WorkerRun(RunState(fs, st.queue, st.taken, be), shouldStop, isPaused)
        ws  == [st.workers EXCEPT ![w] = r.worker]
        fin == AllExited(ws)
    IN  /\ files' = r.files
        /\ backend' = r.backend
        /\ starts' = [starts EXCEPT ![s] =
                        IF fin THEN IdleStart
                        ELSE [st EXCEPT !.queue = r.queue, !.taken = r.taken,
                                        !.workers = ws]]
        /\ isProcessing' = IF fin THEN FALSE ELSE isProcessing
        /\ lastOp' = name
        /\ cancels' = IF \E sw \in Outstanding(i) : sw # <<s, w>> THEN cancels
                      ELSE [cancels EXCEPT !.marked = @ \ {i}]
        /\ UNCHANGED <<isPaused, shouldStop, scan, inputPath, outputPath, settings>>

\* await invoke("start_processing") resolves: the encoder has reported the
\* terminal status of the file
CallResolves(s, w) ==
    /\ starts[s].pc = "running"
    /\ starts[s].workers[w].pc = "await"
    /\ backend[starts[s].workers[w].file].phase = "end"
    /\ WorkerContinues(s, w, files, "other")

\* a catch block that logs the error and leaves the status as it is
LogOnly(fs, i) == fs

\* the catch block of the worker
MarkError(fs, i) ==
    IF fs[i].status # "Cancelled" THEN [fs EXCEPT ![i].status = "Error"] ELSE fs

\* await invoke("start_processing") rejects
CallRejects(s, w) ==
    /\ starts[s].pc = "running"
    /\ starts[s].workers[w].pc = "await"
    /\ WorkerContinues(s, w, MarkError(files, starts[s].workers[w].file), "reject")

\* ------------------------------------------------------ the encoder side
\* The video-progress payloads the encoder can emit next for file f:
\* percents never go back within an attempt; pass 1 reports 0-50, pass 2 and
\* the compression after a CRF search report 50-100; a terminal status ends
\* the stream.
EncoderEvents(f) ==
    LET b == backend[f]
        up == {p \in Percents : p >= b.raw}
        running ==
            IF b.phase \notin {"search", "run"} THEN {}
            ELSE IF settings.mode = "single"
                THEN {[status |-> "Processing", progress |-> p, phase |-> "run"] : p \in up}
            ELSE IF settings.mode = "twopass"
                THEN {[status |-> "Processing (Pass 1/2)", progress |-> p, phase |-> "run"]
                          : p \in {q \in up : q <= 50}}
                     \cup
                     {[status |-> "Processing (Pass 2/2)", progress |-> p, phase |-> "run"]
                          : p \in {q \in up : q >= 50}}
            ELSE {[status |-> "Found CRF", progress |-> p, phase |-> "run"]
                      : p \in {q \in up : q >= 50}}
        evaluating ==
            IF b.phase \notin {"run", "post"} THEN {}
            ELSE {[status |-> st, progress |-> 100, phase |-> "post"] : st \in {"Evaluating"}}
        terminal ==
            IF b.phase \in {"idle", "end"} THEN {}
            ELSE {[status |-> "Done", progress |-> 100,
                   phase |-> "end"],
                  [status |-> "Skipped", progress |-> 100, phase |-> "end"],
                  [status |-> "Error", progress |-> b.raw, phase |-> "end"]}
    IN  running \cup evaluating \cup terminal

\* the payloads compute_vmaf can emit next for file f
VmafEvents(f) ==
    IF backend[f].phase = "vmaf"
        THEN {[status |-> "Evaluating", progress |-> 100],
              [status |-> "Done", progress |-> 100]}
    ELSE {}

\* ------------------------------------------------------------- listeners
\* the raw percent shown as it comes
Unadjusted(searchEnd, progress) == progress

\* Math.round(searchEndProgress + (compressionPhaseProgress / 100) * remainingRange)
AdjustedProgress(searchEnd, progress) ==
    LET searchEndProgress == IF searchEnd = -1 THEN 50 ELSE searchEnd
        doubled == (progress - 50) * 2
        compressionPhaseProgress == IF doubled > 0 THEN doubled ELSE 0
        remainingRange == 100 - searchEndProgress
    IN  (2 * (100 * searchEndProgress
              + compressionPhaseProgress * remainingRange) + 100) \div 200

\* the "Cancelled" filter of the video-progress listener
IgnoredAsStale(file, status) ==
    file.status = "Cancelled" /\ StartsWithProcessing(status)

\* a listener that rescales every payload
RescalesAll(fs, f, ev) ==
    [fs EXCEPT ![f].progress =
                   AdjustedProgress(fs[f].vmafSearchEndProgress, ev.progress),
               ![f].status = ev.status]

\* the video-progress listener applied to one payload
OnVideoProgress(fs, f, ev) ==
    LET old == fs[f]
    IN  IF IgnoredAsStale(old, ev.status) THEN fs
        ELSE [fs EXCEPT ![f] =
                [old EXCEPT
                   !.progress = IF StartsWithFound(ev.status)
                                   THEN AdjustedProgress(old.vmafSearchEndProgress,
                                                         ev.progress)
                                   ELSE ev.progress,
                   !.status = ev.status]]

\* a video-progress event of the running start_processing call is delivered
VideoProgress(f) ==
    /\ Outstanding(f) # {}
    /\ \E ev \in EncoderEvents(f) :
         /\ files' = OnVideoProgress(files, f, ev)
         /\ backend' = [backend EXCEPT ![f].phase = ev.phase,
                                       ![f].raw = ev.progress]
         /\ lastOp' = "other"
    /\ UNCHANGED <<isProcessing, isPaused, shouldStop, scan, inputPath, outputPath, settings,
                   starts, cancels>>

\* Math.round((iteration / maxIterations) * 50)
SearchProgress(iteration, maxIterations) ==
    (100 * iteration + maxIterations) \div (2 * maxIterations)

\* the vmaf-search-progress listener applied to one payload
OnSearchProgress(fs, f, iteration, maxIterations) ==
    [fs EXCEPT ![f].status = "Searching CRF",
               ![f].progress = SearchProgress(iteration, maxIterations),
               ![f].vmafSearchEndProgress =
                   SearchProgress(iteration, maxIterations)]

\* a vmaf-search-progress event of the running CRF search is delivered
VmafSearchProgress(f) ==
    /\ Outstanding(f) # {}
    /\ backend[f].phase = "search"
    /\ \E it \in 1..MaxIterations :
         /\ it >= backend[f].iter
         /\ files' = OnSearchProgress(files, f, it, MaxIterations)
         /\ backend' = [backend EXCEPT ![f].iter = it]
    /\ lastOp' = "other"
    /\ UNCHANGED <<isProcessing, isPaused, shouldStop, scan, inputPath, outputPath, settings,
                   starts, cancels>>

\* ----------------------------------------------------- FileList.svelte
\* canComputeVmaf: besides the status it reads outputInfo, resolution and
\* vmaf, which the handlers only copy from event payloads; comparable says
\* whether those fields allow the computation
CanComputeVmaf(file, comparable) ==
    file.status = "Done" /\ comparable

\* double click on the VMAF cell of a file: compute_vmaf is invoked
TriggerVmaf(f) ==
    /\ \E comparable \in BOOLEAN : CanComputeVmaf(files[f], comparable)
    /\ backend[f].phase = "idle"
    /\ backend' = [backend EXCEPT ![f].phase = "vmaf"]
    /\ lastOp' = "other"
    /\ UNCHANGED <<files, isProcessing, isPaused, shouldStop, scan, inputPath, outputPath,
                   settings, starts, cancels>>

\* a video-progress event of the running compute_vmaf call is delivered
VmafProgress(f) ==
    /\ \E ev \in VmafEvents(f) :
         /\ files' = OnVideoProgress(files, f, ev)
         /\ files' # files
    /\ lastOp' = "other"
    /\ UNCHANGED <<isProcessing, isPaused, shouldStop, scan, inputPath, outputPath, settings,
                   starts, cancels, backend>>

\* await invoke("compute_vmaf") returns or throws
VmafCallEnds(f) ==
    /\ backend[f].phase = "vmaf"
    /\ backend' = [backend EXCEPT ![f].phase = "idle"]
    /\ lastOp' = "other"
    /\ UNCHANGED <<files, isProcessing, isPaused, shouldStop, scan, inputPath, outputPath,
                   settings, starts, cancels>>

\* ------------------------------------------------------------ handlePause
\* Controls.svelte shows the pause button in the else branch of
\* {#if !isProcessing || isPaused}
PauseButton == ~(~isProcessing \/ isPaused)

\* handlePause; its call of handleStart returns at `if (isProcessing) return`
\* because it is made only when isProcessing is true
HandlePause ==
    /\ PauseButton
    /\ isPaused' = ~isPaused
    /\ lastOp' = "other"
    /\ UNCHANGED <<files, isProcessing, shouldStop, scan, inputPath, outputPath, settings,
                   starts, cancels, backend>>

\* Controls.svelte dispatches "resume" from the start button while isPaused;
\* +page.svelte registers on:start, on:pause, on:cancel and on:settings only,
\* so no handler runs
ResumeClick ==
    /\ (~isProcessing \/ isPaused) /\ isPaused
    /\ lastOp' = "resume"
    /\ UNCHANGED <<files, isProcessing, isPaused, shouldStop, scan, inputPath, outputPath,
                   settings, starts, cancels, backend>>

\* ----------------------------------------------------------- handleCancel
\* the loop of handleCancel from index i to its next await or to its end
RECURSIVE CancelLoop(_, _)
CancelLoop(fs, i) ==
    IF i > NumFiles THEN [files |-> fs, pc |-> "idle", idx |-> 0]
    ELSE IF InFlightStatus(fs[i].status)
        THEN [files |-> [fs EXCEPT ![i].status = "Cancelled", ![i].progress = 0],
              pc |-> "await", idx |-> i]
    ELSE CancelLoop(fs, i + 1)

\* history: the files handleCancel has marked Cancelled while a
\* start_processing call for them was outstanding and that are still awaited
MarkedNow(r, marked) ==
    IF r.pc = "await" /\ Outstanding(r.idx) # {} THEN marked \cup {r.idx}
    ELSE marked

\* click on Cancel: handleCancel up to its first await; idx is the file whose
\* cancel_processing request is outstanding
HandleCancel ==
    /\ cancels.pc = "idle"
    /\ shouldStop' = TRUE
    /\ isPaused' = FALSE
    /\ LET r == CancelLoop(files, 1)
       IN  /\ files' = r.files
           /\ cancels' = [pc |-> r.pc, idx |-> r.idx,
                          marked |-> MarkedNow(r, cancels.marked)]
    /\ lastOp' = "other"
    /\ UNCHANGED <<isProcessing, scan, inputPath, outputPath, settings, starts, backend>>

\* await invoke("cancel_processing") returns or throws: the loop goes on
AbortReturns ==
    /\ cancels.pc = "await"
    /\ LET r == CancelLoop(files, cancels.idx + 1)
       IN  /\ files' = r.files
           /\ cancels' = [pc |-> r.pc, idx |-> r.idx,
                          marked |-> MarkedNow(r, cancels.marked)]
    /\ lastOp' = "other"
    /\ UNCHANGED <<isProcessing, isPaused, shouldStop, scan, inputPath, outputPath, settings,
                   starts, backend>>

Next ==
    \/ \E s \in Slots : HandleStart(s)
    \/ \E s \in Slots : OutputDialogCloses(s)
    \/ \E s \in Slots : OverwriteDialogCloses(s)
    \/ \E s \in Slots, w \in Workers : CallResolves(s, w)
    \/ \E s \in Slots, w \in Workers : CallRejects(s, w)
    \/ \E f \in Files : VideoProgress(f)
    \/ \E f \in Files : VmafSearchProgress(f)
    \/ \E f \in Files : TriggerVmaf(f)
    \/ \E f \in Files : VmafProgress(f)
    \/ \E f \in Files : VmafCallEnds(f)
    \/ HandlePause
    \/ ResumeClick
    \/ HandleCancel
    \/ AbortReturns

Spec == Init /\ [][Next]_vars

\* ------------------------------------------------- paths as character lists
\* getOutputFilePath and the overwrite check work on the characters of the
\* paths, so here a path is the sequence of its characters.

\* String.prototype.toLowerCase, on the letters the paths below use
Lower(c) ==
    CASE c = "R" -> "r"
      [] c = "O" -> "o"
      [] c = "T" -> "t"
      [] c = "X" -> "x"
      [] OTHER -> c

ToLowerCase(p) == [i \in 1..Len(p) |-> Lower(p[i])]

\* p.replace(/\\/g, "/")
Normalize(p) == [i \in 1..Len(p) |-> IF p[i] = "\\" THEN "/" ELSE p[i]]

\* p.replace(/\/$/, "")
StripTrailingSlash(p) ==
    IF Len(p) > 0 /\ p[Len(p)] = "/" THEN SubSeq(p, 1, Len(p) - 1) ELSE p

\* p.trim()
RECURSIVE Trim(_)
Trim(p) ==
    IF Len(p) = 0 THEN p
    ELSE IF p[1] = " " THEN Trim(Tail(p))
    ELSE IF p[Len(p)] = " " THEN Trim(SubSeq(p, 1, Len(p) - 1))
    ELSE p

\* p.includes(c)
Includes(p, c) == \E i \in 1..Len(p) : p[i] = c

\* p.lastIndexOf(c): the index counted from 0, or -1
LastIndexOf(p, c) ==
    LET at == {i \in 1..Len(p) : p[i] = c}
    IN  IF at = {} THEN -1
        ELSE (CHOOSE i \in at : \A j \in at : j <= i) - 1

\* p.substring(a, b): both ends clamped to 0..length, swapped when a > b
Substring(p, a, b) ==
    LET clamp(x) == IF x < 0 THEN 0 ELSE IF x > Len(p) THEN Len(p) ELSE x
        lo == IF clamp(a) <= clamp(b) THEN clamp(a) ELSE clamp(b)
        hi == IF clamp(a) <= clamp(b) THEN clamp(b) ELSE clamp(a)
    IN  SubSeq(p, lo + 1, hi)

\* p.substring(a)
SubstringFrom(p, a) == Substring(p, a, Len(p))

\* p.startsWith(q)
StartsWith(p, q) == Len(q) <= Len(p) /\ SubSeq(p, 1, Len(q)) = q

\* normalizePath of +page.svelte
NormalizePathChars(p) == StripTrailingSlash(ToLowerCase(Normalize(p)))

\* the separator a path is cut at: "\\" if it has one, else "/"
Separator(input) == IF Includes(input, "\\") THEN "\\" ELSE "/"

\* input.substring(0, input.lastIndexOf(separator)): the file's own directory
OwnDir(input) == Substring(input, 0, LastIndexOf(input, Separator(input)))

\* isDifferentDir of getOutputFilePath
IsDifferentDir(normOutputDir, normInputRoot) ==
    /\ normOutputDir # <<>>
    /\ ToLowerCase(normOutputDir) # ToLowerCase(normInputRoot)

\* getOutputFilePath(input, outputDir, format, suffix, inputRoot)
GetOutputFilePath(input, outputDir, format, suffix, inputRoot) ==
    LET normInput == Normalize(input)
        normInputRoot == StripTrailingSlash(Normalize(inputRoot))
        normOutputDir == StripTrailingSlash(Normalize(outputDir))
        popped == SubstringFrom(input, LastIndexOf(input, Separator(input)) + 1)
        fileName == IF popped = <<>> THEN <<"u", "n", "k", "n", "o", "w", "n">>
                    ELSE popped
        cut == Substring(fileName, 0, LastIndexOf(fileName, "."))
        nameNoExt == IF cut = <<>> THEN fileName ELSE cut
        relativePath == SubstringFrom(normInput, Len(normInputRoot))
        relativeDir == Substring(relativePath, 0, LastIndexOf(relativePath, "/"))
        targetDir ==
            IF /\ IsDifferentDir(normOutputDir, normInputRoot)
               /\ StartsWith(ToLowerCase(normInput), ToLowerCase(normInputRoot))
                THEN normOutputDir \o relativeDir
            ELSE OwnDir(input)
        outName == nameNoExt \o suffix \o <<".">> \o format
    IN  IF targetDir # <<>> /\ targetDir[Len(targetDir)] # "/"
            THEN targetDir \o <<"/">> \o outName
        ELSE targetDir \o outName

\* the paths, folders, formats and suffixes the resolver is applied to
SourcePaths ==
    {<<"/", "r", "o", "o", "t", "/", "s", "u", "b", "/", "a", ".", "m", "p", "4">>,
     <<"/", "r", "o", "o", "t", "/", "a", ".", "m", "p", "4">>,
     <<"/", "r", "o", "o", "t", "X", "/", "a", ".", "m", "p", "4">>,
     <<"/", "R", "o", "o", "t", "/", "s", "u", "b", "/", "a", ".", "m", "p", "4">>,
     <<"\\", "r", "o", "o", "t", "\\", "s", "u", "b", "\\", "a", ".", "m", "p", "4">>,
     <<"/", "o", "t", "/", "a", ".", "m", "p", "4">>}

ScanRoots ==
    {<<"/", "r", "o", "o", "t">>,
     <<"/", "r", "o", "o", "t", "/">>,
     <<"\\", "r", "o", "o", "t">>,
     <<"/", "r", "o", "o", "t", "/", "s", "u", "b">>}

OutputRoots ==
    {<<>>,
     <<"/">>,
     <<"/", "o", "u", "t">>,
     <<"/", "o", "u", "t", "/">>,
     <<"/", "r", "o", "o", "t">>,
     <<"/", "R", "O", "O", "T">>,
     <<"/", "r", "o", "o", "t", "/", "s", "u", "b">>,
     <<"\\", "r", "o", "o", "t", "\\", "s", "u", "b">>,
     <<"/", "o", "t">>}

Formats == {<<"m", "p", "4">>, <<"m", "k", "v">>}

Suffixes == {<<>>, <<"_", "c">>}

\* the one file the resolver specifications work on
PathFiles == {1}

\* no start_processing call made yet
NoCall == [phase |-> "idle", outputPath |-> <<>>]

\* The resolver applied on its own: the state holds its five arguments
\* (files[1].path, outputPath, settings.targetFormat, settings.suffix,
\* inputPath) and, after Resolve, its result in backend[1].outputPath.
ResolverInit ==
    /\ \E src \in SourcePaths :
         files = [f \in PathFiles |->
                     [path |-> src, status |-> "Pending", progress |-> 0,
                      originalOutputDir |-> <<>>]]
    /\ inputPath \in ScanRoots
    /\ scan = NoScan
    /\ outputPath \in OutputRoots
    /\ \E fmt \in Formats, sfx \in Suffixes :
         settings = [suffix |-> sfx, targetFormat |-> fmt,
                     ffmpegThreads |-> 1, mode |-> "single"]
    /\ isProcessing = FALSE
    /\ isPaused = FALSE
    /\ shouldStop = FALSE
    /\ starts = [s \in {1} |-> "idle"]
    /\ cancels = [pc |-> "idle", idx |-> 0, marked |-> {}]
    /\ backend = [f \in PathFiles |-> NoCall]
    /\ lastOp = "other"

Resolve ==
    /\ backend[1].phase = "idle"
    /\ backend' = [backend EXCEPT ![1] =
                     [phase |-> "resolved",
                      outputPath |-> GetOutputFilePath(files[1].path, outputPath,
                                                       settings.targetFormat,
                                                       settings.suffix, inputPath)]]
    /\ UNCHANGED <<files, isProcessing, isPaused, shouldStop, scan, inputPath,
                   outputPath, settings, starts, cancels, lastOp>>

ResolverNext == Resolve

ResolverSpec == ResolverInit /\ [][ResolverNext]_vars

\* ------------------------------------- handleStart on character-level paths
\* The overwrite check of handleStart and the paths its worker resolves, for
\* one scanned or dropped file.

\* !outputPath || outputPath.trim() === ""
OutputNotSetChars(out) == out = <<>> \/ Trim(out) = <<>>

\* (file as any).originalOutputDir || outputPath
EffectiveOutputPath(file, out) ==
    IF file.originalOutputDir # <<>> THEN file.originalOutputDir ELSE out

\* (file as any).originalOutputDir || inputPath || <the file's directory>
EffectiveInputRoot(file, inp) ==
    IF file.originalOutputDir # <<>> THEN file.originalOutputDir
    ELSE IF inp # <<>> THEN inp
    ELSE OwnDir(file.path)

\* the body of the overwrite loop of handleStart for one pending file
OverwriteCheck(file, out, cfg) ==
    /\ NormalizePathChars(OwnDir(file.path))
           = NormalizePathChars(EffectiveOutputPath(file, out))
    /\ ToLowerCase(SubstringFrom(file.path, LastIndexOf(file.path, ".") + 1))
           = ToLowerCase(cfg.targetFormat)

\* willOverwrite of handleStart
WillOverwriteChars(fs, out, cfg) ==
    /\ cfg.suffix = <<>>
    /\ \E i \in PathFiles :
         /\ fs[i].status # "Done" /\ fs[i].status # "Error"
         /\ OverwriteCheck(fs[i], out, cfg)

\* what the input field shows after several folders or files were dropped
InputDisplay == <<"2", " ", "v">>

PathInit ==
    /\ \E src \in SourcePaths, own \in BOOLEAN :
         files = [f \in PathFiles |->
                     [path |-> src, status |-> "Pending", progress |-> 0,
                      originalOutputDir |-> IF own THEN OwnDir(src) ELSE <<>>]]
    /\ inputPath \in ScanRoots \cup {InputDisplay}
    /\ scan = NoScan
    /\ outputPath \in OutputRoots \cup {<<" ">>}
    /\ \E fmt \in Formats, sfx \in Suffixes :
         settings = [suffix |-> sfx, targetFormat |-> fmt,
                     ffmpegThreads |-> 1, mode |-> "single"]
    /\ isProcessing = FALSE
    /\ isPaused = FALSE
    /\ shouldStop = FALSE
    /\ starts = [s \in {1} |-> "idle"]
    /\ cancels = [pc |-> "idle", idx |-> 0, marked |-> {}]
    /\ backend = [f \in PathFiles |-> NoCall]
    /\ lastOp = "other"

\* handleStart after its dialogs: the worker takes the file, resolves its
\* output path and invokes start_processing with it
PathStartRun ==
    /\ isProcessing' = TRUE
    /\ isPaused' = FALSE
    /\ shouldStop' = FALSE
    /\ files' = [files EXCEPT ![1].status = "Processing", ![1].progress = 0]
    /\ backend' = [backend EXCEPT ![1] =
                     [phase |-> "run",
                      outputPath |->
                          GetOutputFilePath(files[1].path,
                                            EffectiveOutputPath(files[1], outputPath),
                                            settings.targetFormat, settings.suffix,
                                            EffectiveInputRoot(files[1], inputPath))]]
    /\ starts' = [starts EXCEPT ![1] = "running"]

\* click on Start, up to the first await
PathHandleStart ==
    /\ starts[1] = "idle"
    /\ ~isProcessing
    /\ files[1].status # "Done" /\ files[1].status # "Error"
    /\ lastOp' = "other"
    /\ UNCHANGED <<scan, inputPath, outputPath, settings, cancels>>
    /\ IF OutputNotSetChars(outputPath)
          THEN /\ starts' = [starts EXCEPT ![1] = "askOutput"]
               /\ UNCHANGED <<files, isProcessing, isPaused, shouldStop, backend>>
       ELSE IF WillOverwriteChars(files, outputPath, settings)
          THEN /\ starts' = [starts EXCEPT ![1] = "askOverwrite"]
               /\ UNCHANGED <<files, isProcessing, isPaused, shouldStop, backend>>
       ELSE PathStartRun

\* the "output not set" dialog is dismissed
PathOutputDialogCloses ==
    /\ starts[1] = "askOutput"
    /\ starts' = [starts EXCEPT ![1] = "idle"]
    /\ lastOp' = "other"
    /\ UNCHANGED <<files, isProcessing, isPaused, shouldStop, scan, inputPath,
                   outputPath, settings, cancels, backend>>

\* the overwrite dialog is answered; lastOp records a confirmation
PathOverwriteDialogCloses ==
    /\ starts[1] = "askOverwrite"
    /\ \E confirmed \in BOOLEAN :
         IF confirmed
            THEN /\ PathStartRun
                 /\ lastOp' = "confirmed"
            ELSE /\ starts' = [starts EXCEPT ![1] = "idle"]
                 /\ lastOp' = "other"
                 /\ UNCHANGED <<files, isProcessing, isPaused, shouldStop,
                                backend>>
    /\ UNCHANGED <<scan, inputPath, outputPath, settings, cancels>>

\* the call ends: Done by the encoder's last event, or Error by the catch
PathCallEnds ==
    /\ starts[1] = "running"
    /\ \E st \in {"Done", "Error"} :
         files' = [files EXCEPT ![1].status = st]
    /\ backend' = [backend EXCEPT ![1].phase = "ended"]
    /\ starts' = [starts EXCEPT ![1] = "idle"]
    /\ isProcessing' = FALSE
    /\ lastOp' = "other"
    /\ UNCHANGED <<isPaused, shouldStop, scan, inputPath, outputPath, settings,
                   cancels>>

PathNext ==
    \/ PathHandleStart
    \/ PathOutputDialogCloses
    \/ PathOverwriteDialogCloses
    \/ PathCallEnds

PathSpec == PathInit /\ [][PathNext]_vars

\* ------------------------------------------- per-job progress of one job
\* One launched job in two-pass or quality-target mode: the reports of the
\* external tool, the events made of them, and the two listeners.

\* iterations of one CRF search
MaxSearchIterations == 50

\* percents the external tool reports
RawPercents == 0..100

\* the percent of a two-pass event: pass 1 fills 0-50, pass 2 fills 50-100
TwoPassPercent(pass, raw) ==
    IF pass = 1 THEN raw \div 2 ELSE 50 + raw \div 2

\* status text of a two-pass event
PassStatus(pass) ==
    IF pass = 1 THEN "Processing (Pass 1/2)" ELSE "Processing (Pass 2/2)"

ProgressInit ==
    /\ files = [f \in PathFiles |->
                   [status |-> "Processing", progress |-> 0,
                    vmafSearchEndProgress |-> -1]]
    /\ \E m \in {"twopass", "vmaf"} :
         /\ settings = [suffix |-> <<>>, targetFormat |-> <<"m", "p", "4">>,
                        ffmpegThreads |-> 1, mode |-> m]
         /\ backend = [f \in PathFiles |->
                          [phase |-> IF m = "vmaf" THEN "search" ELSE "run",
                           pass |-> 1, raw |-> 0, iter |-> 0]]
    /\ inputPath = <<>>
    /\ scan = NoScan
    /\ outputPath = <<>>
    /\ isProcessing = TRUE
    /\ isPaused = FALSE
    /\ shouldStop = FALSE
    /\ starts = [s \in {1} |-> "running"]
    /\ cancels = [pc |-> "idle", idx |-> 0, marked |-> {}]
    /\ lastOp = "other"

\* a vmaf-search-progress event of the CRF search is delivered
ProgressSearch ==
    /\ settings.mode = "vmaf"
    /\ backend[1].phase = "search"
    /\ \E it \in 0..MaxSearchIterations :
         /\ it >= backend[1].iter
         /\ files' = OnSearchProgress(files, 1, it, MaxSearchIterations)
         /\ backend' = [backend EXCEPT ![1].iter = it]
    /\ UNCHANGED <<isProcessing, isPaused, shouldStop, scan, inputPath, outputPath,
                   settings, starts, cancels, lastOp>>

\* a "Found CRF" video-progress event of the compression phase is delivered
ProgressFound ==
    /\ settings.mode = "vmaf"
    /\ backend[1].phase \in {"search", "run"}
    /\ \E r \in {p \in RawPercents : p >= 50 /\ p >= backend[1].raw} :
         /\ files' = OnVideoProgress(files, 1,
                                     [status |-> "Found CRF", progress |-> r])
         /\ backend' = [backend EXCEPT ![1].phase = "run", ![1].raw = r]
    /\ UNCHANGED <<isProcessing, isPaused, shouldStop, scan, inputPath, outputPath,
                   settings, starts, cancels, lastOp>>

\* the tool reports a percent of pass 1 or pass 2, and the video-progress
\* event made of it is delivered
ProgressPass ==
    /\ settings.mode = "twopass"
    /\ backend[1].phase = "run"
    /\ \E pass \in {1, 2}, raw \in RawPercents :
         /\ \/ pass = backend[1].pass /\ raw >= backend[1].raw
            \/ pass > backend[1].pass
         /\ files' = OnVideoProgress(files, 1,
                                     [status |-> PassStatus(pass),
                                      progress |-> TwoPassPercent(pass, raw)])
         /\ backend' = [backend EXCEPT ![1].pass = pass, ![1].raw = raw]
    /\ UNCHANGED <<isProcessing, isPaused, shouldStop, scan, inputPath, outputPath,
                   settings, starts, cancels, lastOp>>

\* the final "Done" video-progress event is delivered
ProgressDone ==
    /\ backend[1].phase = "run"
    /\ files' = OnVideoProgress(files, 1, [status |-> "Done", progress |-> 100])
    /\ backend' = [backend EXCEPT ![1].phase = "end"]
    /\ UNCHANGED <<isProcessing, isPaused, shouldStop, scan, inputPath, outputPath,
                   settings, starts, cancels, lastOp>>

ProgressNext ==
    \/ ProgressSearch
    \/ ProgressFound
    \/ ProgressPass
    \/ ProgressDone

ProgressSpec == ProgressInit /\ [][ProgressNext]_vars

\* ---------------------------------------------- a session of several files
\* One start over a list of BatchSize scanned files with two workers, output
\* folder and suffix set (no dialog opens), single-pass mode, and neither
\* pause nor cancel: the worker loops, the encoder's events and the ends of
\* the calls.

\* files in the session
BatchSize == 5

BatchFiles == 1..BatchSize

\* files.filter(f => f.status !== "Done" && f.status !== "Error") over the
\* session's list
RECURSIVE BatchQueueFrom(_, _)
BatchQueueFrom(fs, i) ==
    IF i > BatchSize THEN <<>>
    ELSE IF fs[i].status # "Done" /\ fs[i].status # "Error"
        THEN <<i>> \o BatchQueueFrom(fs, i + 1)
    ELSE BatchQueueFrom(fs, i + 1)

\* progressSum * 100 over the session's list
BatchProgressSum(fs) == SumContrib(fs, BatchSize)

\* files of the session in Error
BatchErrors(fs) == {f \in BatchFiles : fs[f].status = "Error"}

BatchInit ==
    /\ files = [f \in BatchFiles |-> NewFile]
    /\ isProcessing = FALSE
    /\ isPaused = FALSE
    /\ shouldStop = FALSE
    /\ inputPath = SourceDir
    /\ scan = NoScan
    /\ outputPath = "/out"
    /\ settings = [suffix |-> "_c", targetFormat |-> "mp4",
                   ffmpegThreads |-> 2, mode |-> "single"]
    /\ starts = [s \in Slots |-> IdleStart]
    /\ cancels = [pc |-> "idle", idx |-> 0, marked |-> {}]
    /\ backend = [f \in BatchFiles |-> IdleStream]
    /\ lastOp = "other"

\* click on Start, once, on the freshly scanned list: handleStart runs to
\* await Promise.all(workers)
BatchStart ==
    /\ StartButton
    /\ starts[1].pc = "idle"
    /\ ~isProcessing
    /\ Len(BatchQueueFrom(files, 1)) > 0
    /\ \A f \in BatchFiles : files[f] = NewFile
    /\ ~OutputNotSet(outputPath)
    /\ LET q   == BatchQueueFrom(files, 1)
           n   == Min(settings.ffmpegThreads, Len(q))
           sp  == SpawnWorkers(RunState(files, q, <<>>, backend),
                               [w \in Workers |-> NoWorker], 1, n,
                               [stop |-> FALSE, paused |-> FALSE])
       IN  /\ isPaused' = FALSE
           /\ shouldStop' = FALSE
           /\ isProcessing' = TRUE
           /\ files' = sp.run.files
           /\ backend' = sp.run.backend
           /\ starts' = [starts EXCEPT ![1] =
                           [pc |-> "running", queue |-> sp.run.queue,
                            queued |-> q, taken |-> sp.run.taken,
                            workers |-> sp.workers]]
    /\ lastOp' = "other"
    /\ UNCHANGED <<scan, inputPath, outputPath, settings, cancels>>

BatchNext ==
    \/ BatchStart
    \/ \E w \in Workers : CallResolves(1, w)
    \/ \E w \in Workers : CallRejects(1, w)
    \/ \E f \in BatchFiles : VideoProgress(f)

BatchSpec == BatchInit /\ [][BatchNext]_vars

\* ------------------------------------------------------ the CRF search
\* The bisection of the quality search as the specification's section 4.2
\* gives it: a bracket over the parameter range, one candidate inside the
\* bracket per iteration, success when a score is within the tolerance band,
\* otherwise the bracket shrinks; the search stops when the iterations are
\* used up or the bracket has collapsed.

\* the quality parameter ranges over 0..ParamMax, the scores over 0..ScoreMax
ParamMax == 9
ScoreMax == 3

\* the score functions that do not increase with the quality parameter: the
\* score at p counts the thresholds above p
MonotoneScores ==
    {[p \in 0..ParamMax |->
         (IF p < a THEN 1 ELSE 0) + (IF p < b THEN 1 ELSE 0)
             + (IF p < c THEN 1 ELSE 0)] :
       a \in 0..(ParamMax + 1), b \in 0..(ParamMax + 1), c \in 0..(ParamMax + 1)}

\* |a - b|
Distance(a, b) == IF a >= b THEN a - b ELSE b - a

\* the search has not started: full bracket, no sample
NewSearch ==
    [phase |-> "search", low |-> 0, high |-> ParamMax, evaluations |-> 0,
     best |-> -1, bestScore |-> -1]

SearchInit ==
    /\ files = [f \in PathFiles |-> NewFile]
    /\ \E target \in 0..ScoreMax, band \in {0, 1}, fn \in MonotoneScores :
         settings = [targetScore |-> target, toleranceBand |-> band,
                     maxIterations |-> 8, score |-> fn, mode |-> "vmaf"]
    /\ backend = [f \in PathFiles |-> NewSearch]
    /\ inputPath = <<>>
    /\ scan = NoScan
    /\ outputPath = <<>>
    /\ isProcessing = TRUE
    /\ isPaused = FALSE
    /\ shouldStop = FALSE
    /\ starts = [s \in {1} |-> "running"]
    /\ cancels = [pc |-> "idle", idx |-> 0, marked |-> {}]
    /\ lastOp = "other"

\* the stopping rule: iterations used up, or high - low <= 1
SearchMustStop(e, cfg) ==
    e.evaluations >= cfg.maxIterations \/ e.high - e.low <= 1

\* one iteration: a candidate inside the bracket is evaluated and recorded,
\* its progress event is delivered, and the search succeeds or shrinks the
\* bracket (a score above the target moves low up, one below moves high down)
SearchIterate ==
    LET e == backend[1]
    IN  /\ e.phase = "search"
        /\ ~SearchMustStop(e, settings)
        /\ \E c \in (e.low + 1)..(e.high - 1) :
             LET score  == settings.score[c]
                 closer == \/ e.best = -1
                           \/ Distance(score, settings.targetScore)
                                < Distance(e.bestScore, settings.targetScore)
                 within == Distance(score, settings.targetScore)
                               <= settings.toleranceBand
             IN  /\ backend' = [backend EXCEPT ![1] =
                       [phase |-> IF within THEN "success" ELSE "search",
                        low |-> IF ~within /\ score > settings.targetScore
                                   THEN c ELSE e.low,
                        high |-> IF ~within /\ score < settings.targetScore
                                    THEN c ELSE e.high,
                        evaluations |-> e.evaluations + 1,
                        best |-> IF closer THEN c ELSE e.best,
                        bestScore |-> IF closer THEN score ELSE e.bestScore]]
                 /\ files' = OnSearchProgress(files, 1, e.evaluations + 1,
                                              settings.maxIterations)
        /\ UNCHANGED <<isProcessing, isPaused, shouldStop, scan, inputPath,
                       outputPath, settings, starts, cancels, lastOp>>

\* the search stops without a sample in the band and reports the closest
\* sample found
SearchStops ==
    /\ backend[1].phase = "search"
    /\ SearchMustStop(backend[1], settings)
    /\ backend' = [backend EXCEPT ![1].phase = "nonconvergent"]
    /\ UNCHANGED <<files, isProcessing, isPaused, shouldStop, scan, inputPath,
                   outputPath, settings, starts, cancels, lastOp>>

SearchNext ==
    \/ SearchIterate
    \/ SearchStops

SearchSpec == SearchInit /\ [][SearchNext]_vars

\* ------------------------------------------ a session nobody interrupts
\* The steps of Spec without pause, resume and cancel, every
\* start_processing call ending (resolved or rejected) at some time.
CallEnds(s, w) == CallResolves(s, w) \/ CallRejects(s, w)

UninterruptedNext ==
    \/ \E s \in Slots : HandleStart(s)
    \/ \E s \in Slots : OutputDialogCloses(s)
    \/ \E s \in Slots : OverwriteDialogCloses(s)
    \/ \E s \in Slots, w \in Workers : CallResolves(s, w)
    \/ \E s \in Slots, w \in Workers : CallRejects(s, w)
    \/ \E f \in Files : VideoProgress(f)
    \/ \E f \in Files : VmafSearchProgress(f)
    \/ \E f \in Files : TriggerVmaf(f)
    \/ \E f \in Files : VmafProgress(f)
    \/ \E f \in Files : VmafCallEnds(f)

UninterruptedSpec ==
    /\ Init
    /\ [][UninterruptedNext]_vars
    /\ \A s \in Slots, w \in Workers : WF_vars(CallEnds(s, w))

\* ------------------------------------------------- scans of the input
\* scanVideos, fetchMetadata, handleMultiDrop and the routes that lead to
\* them.  The list starts empty; every scan lists NumFiles videos, each
\* carrying the folder it was listed from (the directory part of its path).
\* scan.requested is the folder of the most recently requested scan and
\* scan.listed says whether the call of that scan has returned its list.

\* scans requested in one behaviour
MaxScans == 2

Folders == {"/a", "/b"}

\* $t("common.selected_display") and $t("common.output_to_original_directories")
SelectedDisplay == "selected"
OriginalDirectories == "original directories"

\* IDLE_STATUSES.includes(f.status.toLowerCase())
IsIdleStatus(s) ==
    s \in {"Pending", "Cancelled", "Done", "Error", "Skipped", "Scanning"}

\* hasActiveTask
HasActiveTask(fs) == \E i \in DOMAIN fs : ~IsIdleStatus(fs[i].status)

\* a video as scan_directory and scan_multiple_paths list it: its metadata
\* is still to be fetched
ScannedFile(dir) ==
    [status |-> "Scanning", progress |-> 0, vmafSearchEndProgress |-> -1,
     dir |-> dir, originalOutputDir |-> ""]

\* result.videos for folder dir
ScannedList(dir) == [i \in Files |-> ScannedFile(dir)]

\* for (const video of newVideos) video.originalOutputDir = ...
MarkedList(dir) ==
    [i \in Files |-> [ScannedFile(dir) EXCEPT !.originalOutputDir = dir]]

\* the VideoInfo get_video_metadata returns for a video of folder dir; the
\* override directory is a field of the front end only
ProbedInfo(dir) ==
    [status |-> "Pending", progress |-> 0, vmafSearchEndProgress |-> -1,
     dir |-> dir, originalOutputDir |-> ""]

\* settingsStore.value.ffprobeThreads || 4
ProbeThreads(cfg) == IF cfg.ffprobeThreads = 0 THEN 4 ELSE cfg.ffprobeThreads

\* [...files.keys()].filter((i) => files[i].status === "Scanning")
RECURSIVE ScanningFrom(_, _)
ScanningFrom(fs, i) ==
    IF i > Len(fs) THEN <<>>
    ELSE IF fs[i].status = "Scanning" THEN <<i>> \o ScanningFrom(fs, i + 1)
    ELSE ScanningFrom(fs, i + 1)

\* scanCounter++; currentScanId = scanCounter; isScanning = true; and the
\* scan call is awaited
ScanRequested(sc, kind, dir, zone) ==
    [sc EXCEPT !.counter = @ + 1,
               !.isScanning = TRUE,
               !.calls = @ \cup {[id |-> sc.counter + 1, kind |-> kind,
                                  dir |-> dir, zone |-> zone]},
               !.requested = dir,
               !.listed = FALSE]

\* handleInputChange: scanVideos returns at once on an empty path
HandleInputChange(p) ==
    /\ scan.counter < MaxScans
    /\ inputPath' = p
    /\ outputPath' = ""
    /\ scan' = IF p = "" THEN scan ELSE ScanRequested(scan, "dir", p, "input")
    /\ lastOp' = "other"
    /\ UNCHANGED <<files, isProcessing, isPaused, shouldStop, settings, starts,
                   cancels, backend>>

\* the input text field is edited: on:change dispatches "inputChange"
InputFieldEdit ==
    \E p \in Folders \cup {""} : p # inputPath /\ HandleInputChange(p)

\* browseInputFolder: if (disabled) return; the folder dialog is modal
BrowseInputFolder ==
    /\ ~HasActiveTask(files)
    /\ \E p \in Folders : HandleInputChange(p)

\* handleOutputChange, from the output text field or browseOutput
HandleOutputChange(p) ==
    /\ p # outputPath
    /\ outputPath' = p
    /\ lastOp' = "other"
    /\ UNCHANGED <<files, isProcessing, isPaused, shouldStop, scan, inputPath,
                   settings, starts, cancels, backend>>

\* what is dropped or picked: one folder, or videos of one folder
DropKinds == {"folder", "videos"}

Zones == {"input", "output", "both"}

\* handleMultiDrop up to await invoke("categorize_paths")
MultiDropStarts(kind, dir, zone, out) ==
    /\ ~HasActiveTask(files)
    /\ scan.drops = {}
    /\ scan' = [scan EXCEPT !.drops = {[kind |-> kind, dir |-> dir,
                                        zone |-> zone]}]
    /\ outputPath' = out
    /\ lastOp' = "other"
    /\ UNCHANGED <<files, isProcessing, isPaused, shouldStop, inputPath,
                   settings, starts, cancels, backend>>

\* the folder whose content is dropped or picked
DropDirs == {"/b"}

\* the drag-drop listener: paths are dropped on a zone of the window
DropStarts ==
    \E kind \in DropKinds, dir \in DropDirs, zone \in Zones :
        MultiDropStarts(kind, dir, zone, outputPath)

\* browseInputVideos and handleInputVideosChange
BrowseInputVideos ==
    \E dir \in DropDirs : MultiDropStarts("videos", dir, "input", "")

\* handleMultiDrop after categorize_paths returned, to its next await or to
\* its return
CategorizeReturns(d) ==
    /\ d \in scan.drops
    /\ LET sc == [scan EXCEPT !.drops = @ \ {d}]
       IN  IF d.zone = "output"
              THEN /\ outputPath' = IF d.kind = "folder" THEN d.dir
                                    ELSE outputPath
                   /\ scan' = sc
                   /\ UNCHANGED inputPath
           ELSE IF d.kind = "folder"
              THEN /\ scan.counter < MaxScans
                   /\ inputPath' = d.dir
                   /\ outputPath' = IF d.zone = "both" THEN d.dir ELSE ""
                   /\ scan' = ScanRequested(sc, "dir", d.dir, d.zone)
           ELSE /\ scan.counter < MaxScans
                /\ scan' = ScanRequested(sc, "multi", d.dir, d.zone)
                /\ UNCHANGED <<inputPath, outputPath>>
    /\ lastOp' = "other"
    /\ UNCHANGED <<files, isProcessing, isPaused, shouldStop, settings, starts,
                   cancels, backend>>

\* fetchMetadata(scanId) for the list fs up to await Promise.all(workers):
\* the invocations whose workers await a probe
FetchMetadata(fs, scanId, counter, cfg) ==
    LET queue == ScanningFrom(fs, 1)
        n     == Min(ProbeThreads(cfg), Len(queue))
    IN  IF scanId # counter \/ n = 0 THEN {}
        ELSE {[id |-> scanId,
               queue |-> SubSeq(queue, n + 1, Len(queue)),
               out |-> {[file |-> queue[k], dir |-> fs[queue[k]].dir]
                           : k \in 1..n}]}

\* the scan call of scanVideos or handleMultiDrop returns the list
ScanReturns(c) ==
    /\ c \in scan.calls
    /\ LET list == IF c.kind = "multi" /\ c.zone = "both" THEN MarkedList(c.dir)
                   ELSE ScannedList(c.dir)
       IN  /\ files' = list
           /\ scan' = [scan EXCEPT
                         !.calls = @ \ {c},
                         !.probes = @ \cup FetchMetadata(list, c.id,
                                                         scan.counter, settings),
                         !.isScanning = IF c.id = scan.counter THEN FALSE ELSE @,
                         !.listed = IF c.id = scan.counter THEN TRUE ELSE @]
    /\ inputPath' = IF c.kind = "multi" THEN SelectedDisplay ELSE inputPath
    /\ outputPath' = IF c.kind # "multi" THEN outputPath
                     ELSE IF c.zone = "both" THEN OriginalDirectories
                     ELSE ""
    /\ lastOp' = "other"
    /\ UNCHANGED <<isProcessing, isPaused, shouldStop, settings, starts,
                   cancels, backend>>

\* the scan call throws
ScanFails(c) ==
    /\ c \in scan.calls
    /\ scan' = [scan EXCEPT
                  !.calls = @ \ {c},
                  !.isScanning = IF c.id = scan.counter THEN FALSE ELSE @]
    /\ lastOp' = "other"
    /\ UNCHANGED <<files, isProcessing, isPaused, shouldStop, inputPath,
                   outputPath, settings, starts, cancels, backend>>

\* a worker of fetchMetadata after its get_video_metadata call ended, to
\* its next await or to its return
ProbeEnds(fr, o, ok) ==
    /\ fr \in scan.probes
    /\ o \in fr.out
    /\ LET cur  == fr.id = scan.counter
           fs   == IF ~cur THEN files
                   ELSE IF ok THEN [files EXCEPT ![o.file] = ProbedInfo(o.dir)]
                   ELSE [files EXCEPT ![o.file].status = "Error"]
           more == cur /\ Len(fr.queue) > 0
           out  == (fr.out \ {o}) \cup
                   (IF more THEN {[file |-> Head(fr.queue),
                                   dir |-> fs[Head(fr.queue)].dir]}
                    ELSE {})
           fr2  == [fr EXCEPT !.queue = IF more THEN Tail(@) ELSE @,
                              !.out = out]
       IN  /\ files' = fs
           /\ scan' = [scan EXCEPT
                         !.probes = (@ \ {fr}) \cup
                                    (IF out = {} THEN {} ELSE {fr2})]
    /\ lastOp' = "other"
    /\ UNCHANGED <<isProcessing, isPaused, shouldStop, inputPath, outputPath,
                   settings, starts, cancels, backend>>

\* await invoke("get_video_metadata") resolves
ProbeReturns(fr, o) == ProbeEnds(fr, o, TRUE)

\* await invoke("get_video_metadata") rejects
ProbeFails(fr, o) == ProbeEnds(fr, o, FALSE)

\* the outstanding probes
Probes == {p \in [fr : scan.probes, o : [file : Files, dir : Folders]] :
              p.o \in p.fr.out}

\* click on Start with a list on screen (with an empty list handleStart
\* returns at once)
ScanStart ==
    /\ Len(files) > 0
    /\ HandleStart(1)

ScanInit ==
    /\ files = <<>>
    /\ isProcessing = FALSE
    /\ isPaused = FALSE
    /\ shouldStop = FALSE
    /\ inputPath = ""
    /\ scan = NoScan
    /\ outputPath = ""
    /\ \E t \in 1..MaxThreads :
         settings = [suffix |-> "_c", targetFormat |-> "mp4",
                     ffmpegThreads |-> 1, mode |-> "single",
                     ffprobeThreads |-> t]
    /\ starts = [s \in Slots |-> IdleStart]
    /\ cancels = [pc |-> "idle", idx |-> 0, marked |-> {}]
    /\ backend = [f \in Files |-> IdleStream]
    /\ lastOp = "other"

ScanNext ==
    \/ InputFieldEdit
    \/ BrowseInputFolder
    \/ BrowseInputVideos
    \/ DropStarts
    \/ \E p \in {"/out"} : HandleOutputChange(p)
    \/ \E d \in scan.drops : CategorizeReturns(d)
    \/ \E c \in scan.calls : ScanReturns(c)
    \/ \E c \in scan.calls : ScanFails(c)
    \/ \E p \in Probes : ProbeReturns(p.fr, p.o)
    \/ \E p \in Probes : ProbeFails(p.fr, p.o)
    \/ ScanStart
    \/ OutputDialogCloses(1)
    \/ \E w \in Workers : CallRejects(1, w)

ScanSpec == ScanInit /\ [][ScanNext]_vars

\* ================================================================ claims
\* the files a worker takes from its queue in this step
Dequeues == {f \in Files : Awaiting(starts', f) \ Awaiting(starts, f) # {}}

InFlight == {f \in Files : InFlightStatus(files[f].status)}

\* C1: in every reachable state the number of files whose status is in
\* flight (Processing, Processing (Pass n/2), Searching CRF, Found CRF,
\* Waiting for VMAF, Evaluating) is at most settings.ffmpegThreads.
C1_InFlightWithinLimit == Cardinality(InFlight) <= settings.ffmpegThreads

\* C2: once a file is Cancelled, a video-progress event delivered for it,
\* whatever status it carries, leaves its status Cancelled.
C2_CancelledSurvivesVideoProgress ==
    [][\A f \in Files :
          (files[f].status = "Cancelled" /\ VideoProgress(f))
              => files'[f].status = "Cancelled"]_vars

\* C3: once a file is Cancelled, a vmaf-search-progress event delivered for
\* it changes neither its status nor its progress.
C3_CancelledSurvivesSearchProgress ==
    [][\A f \in Files :
          (files[f].status = "Cancelled" /\ VmafSearchProgress(f))
              => /\ files'[f].status = "Cancelled"
                 /\ files'[f].progress = files[f].progress]_vars

\* C4: the displayed progress of a file never decreases in a step that does
\* not dequeue it (events, cancel, terminal events, call results), the raw
\* percents of the encoder being non-decreasing.
C4_ProgressNeverDecreases ==
    [][\A f \in Files :
          f \notin Dequeues => files'[f].progress >= files[f].progress]_vars

\* C5: the session aggregate progress never decreases in a step in which no
\* file is dequeued (progress events, call failures, pause, cancel).
C5_TotalProgressNeverDecreases ==
    [][Dequeues = {} => ProgressSum(files') >= ProgressSum(files)]_vars

\* C6: from a state in which isPaused is set no step other than a resume
\* request takes a file from a queue, and handlePause itself sends no abort
\* request and leaves every awaiting worker and every file as it is, so each
\* call in flight ends by its own resolution or rejection.
C6_PauseStopsDequeue ==
    [][/\ (isPaused /\ ~ResumeClick) => Dequeues = {}
       /\ HandlePause => /\ cancels' = cancels
                         /\ starts' = starts
                         /\ files' = files]_vars

\* C7: a resume request of a paused session with Pending files clears the
\* pause and leaves workers running over the remaining queue.
C7_ResumeRespawnsWorkers ==
    [][(ResumeClick /\ \E f \in Files : files[f].status = "Pending")
          => /\ ~isPaused'
             /\ \E f \in Files : Awaiting(starts', f) # {}]_vars

\* C8: for every file at most one start_processing call is outstanding.
C8_OneCallPerFile == \A f \in Files : Cardinality(Outstanding(f)) <= 1

C10_FailureIsContained ==
    [][\A s \in Slots, w \in Workers :
          LET i == starts[s].workers[w].file
              q == starts[s].queue
              goesOn == Len(q) > 0 /\ ~shouldStop /\ ~isPaused
          IN  (CallRejects(s, w) /\ files[i].status # "Cancelled")
                  => /\ files'[i].status = "Error"
                     /\ goesOn => /\ starts'[s].workers[w] =
                                        [pc |-> "await", file |-> Head(q)]
                                  /\ files'[Head(q)].status = "Processing"
                     /\ \A g \in Files :
                            (g # i /\ ~(goesOn /\ g = Head(q)))
                                => files'[g] = files[g]
                     /\ \A t \in Slots, v \in Workers :
                            (<<t, v>> # <<s, w>> /\ starts[t].workers[v].pc = "await")
                                => starts'[t].workers[v] = starts[t].workers[v]]_vars

\* C10 witness: a call has just rejected, its file is Error and a worker has
\* gone on to the next file.
C10_Witness ==
    /\ lastOp = "reject"
    /\ \E f, g \in Files :
          /\ f # g
          /\ files[f].status = "Error"
          /\ files[g].status = "Processing"
          /\ files[g].progress = 0
          /\ Outstanding(g) # {}

\* a step of the program that takes job f alone out of Error, back to the
\* queue (Pending) or straight to a worker (Processing)
RetriesAlone(f) ==
    /\ Next
    /\ files'[f].status \in {"Pending", "Processing"}
    /\ \A g \in Files \ {f} : files'[g] = files[g]

\* C11: a job in Error can be retried individually: whenever a job is in
\* Error and no call for it is outstanding, some step of the program puts
\* that job back to Pending or Processing and leaves every other job as it is.
C11_ErrorJobCanBeRetried ==
    \A f \in Files :
        (files[f].status = "Error" /\ Outstanding(f) = {})
            => ENABLED RetriesAlone(f)

\* C13: a start requested while the output path is empty returns without
\* changing any file's status or progress, without setting isProcessing and
\* without launching a call: neither the click nor the closing of the
\* "output not set" dialog changes files, isProcessing, the flags or the
\* encoder side, and no worker comes to await a call.
C13_NoOutputPathBlocksStart ==
    [][\A s \in Slots :
          (outputPath \in {"", " "} /\ (HandleStart(s) \/ OutputDialogCloses(s)))
              => /\ files' = files
                 /\ isProcessing' = isProcessing
                 /\ backend' = backend
                 /\ Dequeues = {}
                 /\ starts'[s].pc \in {"idle", "askOutput"}]_vars

\* C13 witness: start was clicked with an empty output path and its dialog
\* is open, every file still Pending at progress 0.
C13_Witness ==
    /\ outputPath \in {"", " "}
    /\ \E s \in Slots : starts[s].pc = "askOutput"
    /\ ~isProcessing
    /\ \A f \in Files : files[f] = NewFile

\* C17: cancel marks every file that is in flight when it is requested as
\* Cancelled at once, in the step of the click itself: no file's marking
\* waits for the abort request of another file to return.
C17_CancelMarksAllAtOnce ==
    [][HandleCancel
          => \A f \in Files :
                 InFlightStatus(files[f].status)
                     => files'[f].status = "Cancelled"]_vars

\* C18: once cancel has set shouldStop in a running session, no step takes a
\* file from a queue and every Pending file keeps its status and progress
\* until a new start is requested.  A start passes its guard only while
\* isProcessing is false and the start that sets isProcessing clears
\* shouldStop, so while both flags are set no start has been requested since
\* the cancel.
C18_StopBlocksLaunch ==
    [][(shouldStop /\ isProcessing)
          => /\ Dequeues = {}
             /\ \A f \in Files :
                    files[f].status = "Pending" => files'[f] = files[f]]_vars

\* -------------------------------------------- the resolver's contract
\* the directory and file names of a path, separators of either kind and
\* repeated or trailing separators aside
RECURSIVE SplitNames(_, _, _)
SplitNames(p, cur, acc) ==
    IF p = <<>> THEN (IF cur = <<>> THEN acc ELSE Append(acc, cur))
    ELSE IF Head(p) \in {"/", "\\"}
        THEN SplitNames(Tail(p), <<>>, IF cur = <<>> THEN acc ELSE Append(acc, cur))
    ELSE SplitNames(Tail(p), Append(cur, Head(p)), acc)

Names(p) == SplitNames(p, <<>>, <<>>)

LowerNames(p) == [i \in 1..Len(Names(p)) |-> ToLowerCase(Names(p)[i])]

\* the names of the directory that holds the file p
DirNames(p) == SubSeq(Names(p), 1, Len(Names(p)) - 1)

\* the file p lies in the folder root or below it, case aside
UnderRoot(p, root) ==
    /\ Len(LowerNames(root)) <= Len(Names(p)) - 1
    /\ SubSeq(LowerNames(p), 1, Len(LowerNames(root))) = LowerNames(root)

\* the same folder, case aside
SameFolder(a, b) == LowerNames(a) = LowerNames(b)

\* <basenameWithoutExtension><suffix>.<extension>
TargetName(p, suffix, format) ==
    LET base == Names(p)[Len(Names(p))]
    IN  SubSeq(base, 1, LastIndexOf(base, ".")) \o suffix \o <<".">> \o format

Resolved == backend[1].phase = "resolved"

\* C14: for a source under scanRoot and an outputRoot that is set and is not
\* scanRoot, the resolved path is outputRoot, then the source's directory
\* relative to scanRoot, then <basenameWithoutExtension><suffix>.<extension>;
\* resolve("/root/sub/a.mp4", "/root", "/out", "mkv", "_c") = "/out/sub/a_c.mkv".
C14_ReRootedUnderOutputRoot ==
    (/\ Resolved
     /\ UnderRoot(files[1].path, inputPath)
     /\ outputPath # <<>>
     /\ ~SameFolder(outputPath, inputPath))
        => Names(backend[1].outputPath) =
               Names(outputPath)
               \o SubSeq(DirNames(files[1].path), Len(Names(inputPath)) + 1,
                         Len(DirNames(files[1].path)))
               \o <<TargetName(files[1].path, settings.suffix,
                               settings.targetFormat)>>

\* C15: when outputRoot is empty or is, case aside, the source file's own
\* directory, the resolved file lies in the source file's own directory, also
\* when that directory is a proper subdirectory of scanRoot.
C15_InPlaceWhenOutputIsOwnDir ==
    (/\ Resolved
     /\ \/ outputPath = <<>>
        \/ LowerNames(outputPath) = SubSeq(LowerNames(files[1].path), 1,
                                           Len(Names(files[1].path)) - 1))
        => DirNames(backend[1].outputPath) = DirNames(files[1].path)

\* C16: when the source is not under scanRoot, the resolved file lies in the
\* source file's own directory whatever outputRoot is, also for a source in a
\* sibling directory whose name starts with scanRoot's text.
C16_OutsideRootStaysInPlace ==
    (Resolved /\ ~UnderRoot(files[1].path, inputPath))
        => DirNames(backend[1].outputPath) = DirNames(files[1].path)

\* C12: whenever a worker has launched a job whose resolved output path is
\* the job's own source path, the start that launched it had obtained the
\* overwrite confirmation.
C12_OverwriteNeedsConfirmation ==
    (/\ backend[1].phase = "run"
     /\ Names(backend[1].outputPath) = Names(files[1].path))
        => lastOp = "confirmed"

\* the search-end baseline the listener uses: the stored one, or 50
Baseline(file) ==
    IF file.vmafSearchEndProgress = -1 THEN 50 ELSE file.vmafSearchEndProgress

\* C19: after a compression-phase event of quality-target mode with raw
\* percent r in 50..100 and baseline s in 0..50, the displayed progress d is
\* the integer nearest to s + ((r - 50) * 2 / 100) * (100 - s) (ties upward):
\* d = s at r = 50, d = 100 at r = 100, s <= d <= 100, and no later raw
\* percent gives a smaller value.
C19_CompressionPhaseMapping ==
    files[1].status = "Found CRF" =>
        LET s == Baseline(files[1])
            r == backend[1].raw
            d == files[1].progress
            exact100 == 100 * s + (r - 50) * 2 * (100 - s)
        IN  /\ s \in 0..50 /\ r \in 50..100
            /\ 200 * d - 2 * exact100 > -100
            /\ 200 * d - 2 * exact100 <= 100
            /\ r = 50 => d = s
            /\ r = 100 => d = 100
            /\ s <= d /\ d <= 100
            /\ \A later \in r..100 :
                   AdjustedProgress(files[1].vmafSearchEndProgress, later) >= d

\* a compression-phase event strictly inside the range, on a baseline that
\* a search event stored, with a value that had to be rounded
C19_Witness ==
    /\ files[1].status = "Found CRF"
    /\ files[1].vmafSearchEndProgress = 33
    /\ backend[1].raw = 75
    /\ files[1].progress = 67

C21_ErrorFilesCapAggregate ==
    LET k == Cardinality(BatchErrors(files))
    IN  /\ BatchProgressSum(files) <= 100 * (BatchSize - k)
        /\ (BatchSize = 5 /\ k >= 1) => BatchProgressSum(files) <= 80 * BatchSize

\* C21 witness: the session has ended, one file is in Error, every other
\* file is Done, and the aggregate stands exactly at its cap.
C21_Witness ==
    /\ ~isProcessing
    /\ starts[1].pc = "idle"
    /\ Cardinality(BatchErrors(files)) = 1
    /\ \A f \in BatchFiles : files[f].status \in {"Done", "Error"}
    /\ BatchProgressSum(files) = 100 * (BatchSize - 1)

\* C22: once the session has ended with one file left in Error and every
\* other file Done, the session aggregate progress is 100%.
C22_AggregateReachesFullWithError ==
    (/\ ~isProcessing
     /\ \A w \in Workers : starts[1].workers[w].pc # "await"
     /\ Cardinality(BatchErrors(files)) = 1
     /\ \A f \in BatchFiles \ BatchErrors(files) : files[f].status = "Done")
        => BatchProgressSum(files) = 100 * BatchSize

\* C23: a progress event (video-progress or vmaf-search-progress) delivered
\* for a file whose status is Done, Error or Skipped leaves the file's status
\* and progress unchanged.
C23_TerminalRejectsEvents ==
    [][\A f \in Files :
          (/\ files[f].status \in {"Done", "Error", "Skipped"}
           /\ (VideoProgress(f) \/ VmafSearchProgress(f) \/ VmafProgress(f)))
              => /\ files'[f].status = files[f].status
                 /\ files'[f].progress = files[f].progress]_vars

\* C24: status transitions are one-directional: no step takes from a queue
\* a job whose status is Done or Skipped, and, the program having no retry
\* operation for a single job, none takes a job that is Cancelled or Error.
C24_OneDirectionalStatus ==
    [][\A f \in Dequeues :
          files[f].status \notin {"Done", "Skipped", "Cancelled", "Error"}]_vars

\* C25: for every score function that does not increase with the quality
\* parameter and maxIterations = 8, a search that has ended has either a best
\* sample whose score is within toleranceBand of the target, or has reported
\* non-convergence after exactly 8 candidate evaluations.
C25_SearchConvergesOrUsesBudget ==
    LET e == backend[1]
    IN  e.phase \in {"success", "nonconvergent"} =>
            \/ /\ e.best # -1
               /\ Distance(e.bestScore, settings.targetScore)
                      <= settings.toleranceBand
            \/ /\ e.phase = "nonconvergent"
               /\ e.evaluations = 8

\* C26: with no pause and no cancel and every call ending, every running
\* handleStart eventually returns and isProcessing eventually returns to
\* false; a handleStart returns only when its queue is empty, so that every
\* file it queued has been taken by a worker; and the files taken so far
\* followed by the files still queued are always the files queued at the
\* start, none twice (each is launched exactly once).
C26_UninterruptedSessionEnds ==
    /\ \A s \in Slots : (starts[s].pc = "running") ~> (starts[s].pc = "idle")
    /\ isProcessing ~> ~isProcessing
    /\ [][\A s \in Slots :
             (starts[s].pc = "running" /\ starts'[s].pc = "idle")
                 => Len(starts[s].queue) = 0]_vars
    /\ [](\A s \in Slots :
             starts[s].pc = "running" =>
                 /\ starts[s].taken \o starts[s].queue = starts[s].queued
                 /\ \A i, j \in 1..Len(starts[s].queued) :
                        starts[s].queued[i] = starts[s].queued[j] => i = j)

\* C26 witness: a start that queued both files has ended: both calls are
\* over, both files have a final status and isProcessing is false again.
C26_Witness ==
    /\ ~isProcessing
    /\ \A s \in Slots : starts[s].pc = "idle"
    /\ \A f \in Files : files[f].status \in {"Done", "Error", "Skipped"}
    /\ \A f \in Files : backend[f].phase = "idle"

\* C27: when the call of a file rejects that was cancelled while this call
\* was outstanding, the worker leaves the file's status Cancelled: the
\* rejection never makes it Error, whatever happened between the cancel and
\* the rejection.
C27_CancelledNotTurnedIntoError ==
    [][\A s \in Slots, w \in Workers :
          LET i == starts[s].workers[w].file
          IN  (CallRejects(s, w) /\ i \in cancels.marked)
                  => files'[i].status = "Cancelled"]_vars

\* C28: when two scans overlap, the list of the earlier one never replaces
\* the list of the later one: once the most recently requested scan has
\* returned its list and no scan call and no metadata call is awaited, every
\* file shown was listed from the folder of that scan and none is Scanning.
C28_LatestScanWins ==
    (scan.listed /\ scan.calls = {} /\ scan.probes = {}) =>
        \A i \in DOMAIN files :
            /\ files[i].dir = scan.requested
            /\ files[i].status # "Scanning"

\* C29: a metadata result that arrives for a file a worker has dequeued and
\* whose start_processing call it awaits leaves the status, the progress and
\* the override output directory of the file as they are.
C29_LateProbeLeavesDequeuedFile ==
    [][\A p \in Probes :
          (ProbeReturns(p.fr, p.o) /\ Outstanding(p.o.file) # {}) =>
              /\ files'[p.o.file].status = files[p.o.file].status
              /\ files'[p.o.file].progress = files[p.o.file].progress
              /\ files'[p.o.file].originalOutputDir =
                     files[p.o.file].originalOutputDir]_vars

\* C30: while some file has an active status no step requests a scan
\* (scanCounter keeps its value) and no step assigns the list of a scan to
\* the file list, whatever the route: drop, browse button or input field.
C30_NoScanWhileActive ==
    [][HasActiveTask(files) =>
          /\ scan'.counter = scan.counter
          /\ ~(\E c \in scan.calls : ScanReturns(c))]_vars

====
